---- MODULE Spec2Model ----
(***************************************************************************)
(* goldmark-admonitions, renderer.go: classification of admonition nodes,  *)
(* blockquote nesting levels and the two-form emitter (structured macro    *)
(* or plain <blockquote>).                                                 *)
(*                                                                         *)
(* Text is modelled as a sequence of one-character strings, so that the    *)
(* regular expressions of the classifiers are evaluated on the characters. *)
(* A document tree is a sequence of node records numbered in document      *)
(* (pre-)order; a node's children are the nodes naming it as parent, in    *)
(* increasing order.                                                       *)
(***************************************************************************)
EXTENDS Integers, Sequences, FiniteSets, TLC

VARIABLES
    literal,          \* ClassifyingBlockQuote: the string classified
    classifier,       \* ClassifyingBlockQuote: "legacy" or "ghalerts"
    result,           \* ClassifyingBlockQuote: the value returned
    tree,             \* the document tree being walked
    node,             \* the node ParseBlockQuoteType / GenerateBlockQuoteLevel / the render began at
    walk,             \* the events (node, entering) of the running ast.Walk, in order
    pos,              \* index of the next event of the running ast.Walk
    t,                \* ParseBlockQuoteType: local t
    countParagraphs,  \* ParseBlockQuoteType: local countParagraphs
    status,           \* status of the running ast.Walk
    inspected,        \* ParseBlockQuoteType: the nodes classified so far, with the value each gave t
    levels,           \* GenerateBlockQuoteLevel: the map returned
    doc,              \* number of the document the renderer is rendering
    LevelMap,         \* Renderer.LevelMap
    output,           \* what the sink accepted, in order
    visit,            \* renderAdmon: its latest call (arguments, locals, return value)
    writeFailures,    \* number of writes the sink has rejected in this render
    pc                \* where the running operation stands

vars == <<literal, classifier, result, tree, node, walk, pos, t, countParagraphs,
          status, inspected, levels, doc, LevelMap, output, visit,
          writeFailures, pc>>

Unused == "unused"

(***************************************************************************)
(* Bounds of the checked inputs.                                           *)
(***************************************************************************)
MaxTokens == 3
MaxParseNodes == 4
MaxDocBlocks == 3
MaxLevelBlocks == 4
MaxRerenderBlocks == 2
MaxRenders == 2
MaxWriteFailures == 1
MaxLevel == 2

(***************************************************************************)
(* Characters and case folding ((?i) of the regular expressions; none of   *)
(* the keywords holds a k or an s, so ASCII folding is what Go applies).   *)
(***************************************************************************)
UpperCase == <<"A", "B", "C", "D", "E", "F", "G", "H", "I", "J", "K", "L", "M",
               "N", "O", "P", "Q", "R", "S", "T", "U", "V", "W", "X", "Y", "Z">>
LowerCase == <<"a", "b", "c", "d", "e", "f", "g", "h", "i", "j", "k", "l", "m",
               "n", "o", "p", "q", "r", "s", "t", "u", "v", "w", "x", "y", "z">>

FoldTable ==
    [c \in {UpperCase[i] : i \in DOMAIN UpperCase} |->
        LowerCase[CHOOSE i \in DOMAIN UpperCase : UpperCase[i] = c]]

Fold(c) == IF c \in DOMAIN FoldTable THEN FoldTable[c] ELSE c

W_info == <<"i", "n", "f", "o">>
W_note == <<"n", "o", "t", "e">>
W_warn == <<"w", "a", "r", "n">>
W_tip == <<"t", "i", "p">>
W_bang_note == <<"!", "n", "o", "t", "e">>
W_bang_important == <<"!", "i", "m", "p", "o", "r", "t", "a", "n", "t">>
W_bang_warning == <<"!", "w", "a", "r", "n", "i", "n", "g">>
W_bang_caution == <<"!", "c", "a", "u", "t", "i", "o", "n">>
W_bang_tip == <<"!", "t", "i", "p">>

(***************************************************************************)
(* BlockQuoteType: the iota enumeration and its String method.             *)
(***************************************************************************)
Info == 0
Note == 1
Warn == 2
Tip == 3
None == 4

BlockQuoteType == {Info, Note, Warn, Tip, None}

\* A slip in the label table: the pattern's key "warn" in place of the label.
String_KeyForLabel(bt) == <<"info", "note", "warn", "tip", "none">>[bt + 1]

String(bt) == <<"info", "note", "warning", "tip", "none">>[bt + 1]

(***************************************************************************)
(* regexp: a pattern is (?i) with an optional ^ and alternative literal    *)
(* words.  MatchString reports whether one alternative occurs in the       *)
(* string: at its start when anchored, at any offset otherwise.            *)
(***************************************************************************)
MatchesAt(word, s, i) ==
    /\ i + Len(word) - 1 <= Len(s)
    /\ \A j \in 1..Len(word) : Fold(s[i + j - 1]) = word[j]

MatchString(re, s) ==
    \E word \in re.alts :
        \E i \in (IF re.anchored THEN {1} ELSE 1..Len(s)) : MatchesAt(word, s, i)

LegacyBlockQuoteClassifier ==
    [info |-> [anchored |-> FALSE, alts |-> {W_info}],
     note |-> [anchored |-> FALSE, alts |-> {W_note}],
     warn |-> [anchored |-> FALSE, alts |-> {W_warn}],
     tip  |-> [anchored |-> FALSE, alts |-> {W_tip}]]

GHAlertsBlockQuoteClassifier ==
    [info |-> [anchored |-> TRUE, alts |-> {W_bang_note, W_bang_important}],
     note |-> [anchored |-> TRUE, alts |-> {W_bang_warning}],
     warn |-> [anchored |-> TRUE, alts |-> {W_bang_caution}],
     tip  |-> [anchored |-> TRUE, alts |-> {W_bang_tip}]]

\* A slip in the order of the switch: note is tried before info.
ClassifyingBlockQuote_NoteFirst(patternMap, s) ==
    IF MatchString(patternMap.note, s) THEN Note
    ELSE IF MatchString(patternMap.info, s) THEN Info
    ELSE IF MatchString(patternMap.warn, s) THEN Warn
    ELSE IF MatchString(patternMap.tip, s) THEN Tip
    ELSE None

\* The switch: the first case whose pattern matches decides, None otherwise.
ClassifyingBlockQuote(patternMap, s) ==
    IF MatchString(patternMap.info, s) THEN Info
    ELSE IF MatchString(patternMap.note, s) THEN Note
    ELSE IF MatchString(patternMap.warn, s) THEN Warn
    ELSE IF MatchString(patternMap.tip, s) THEN Tip
    ELSE None

PatternMapOf(c) ==
    IF c = "legacy" THEN LegacyBlockQuoteClassifier ELSE GHAlertsBlockQuoteClassifier

(***************************************************************************)
(* Specification of the classifier alone: a string built of at most        *)
(* MaxTokens tokens is handed to one of the two classifiers.               *)
(***************************************************************************)
K_info == <<"i", "n", "f", "o">>
K_NOTE == <<"N", "O", "T", "E">>
K_Warn == <<"W", "a", "r", "n">>
K_tIp == <<"t", "I", "p">>
K_bang == <<"!">>
K_important == <<"i", "m", "p", "o", "r", "t", "a", "n", "t">>
K_Caution == <<"C", "a", "u", "t", "i", "o", "n">>
K_warning == <<"w", "a", "r", "n", "i", "n", "g">>
K_x == <<"x", " ">>

Tokens == {K_info, K_NOTE, K_Warn, K_tIp, K_bang, K_important, K_Caution,
           K_warning, K_x}

RECURSIVE StringsOf(_)
StringsOf(n) ==
    IF n = 0 THEN {<<>>}
    ELSE LET shorter == StringsOf(n - 1)
         IN  shorter \cup {s \o k : s \in shorter, k \in Tokens}

ClassifyInit ==
    /\ literal \in StringsOf(MaxTokens)
    /\ classifier \in {"legacy", "ghalerts"}
    /\ result = None
    /\ pc = "call"
    /\ tree = Unused /\ node = Unused /\ walk = Unused /\ pos = Unused /\ t = Unused
    /\ countParagraphs = Unused /\ status = Unused /\ inspected = Unused
    /\ levels = Unused /\ doc = Unused /\ LevelMap = Unused
    /\ output = Unused /\ visit = Unused /\ writeFailures = Unused

Classify ==
    /\ pc = "call"
    /\ result' = ClassifyingBlockQuote(PatternMapOf(classifier), literal)
    /\ pc' = "returned"
    /\ UNCHANGED <<literal, classifier, tree, node, walk, pos, t, countParagraphs,
                   status, inspected, levels, doc, LevelMap, output, visit,
                   writeFailures>>

ClassifyNext == Classify

SpecClassify == ClassifyInit /\ [][ClassifyNext]_vars

\* What the claim reads: the keyword occurs somewhere / at the start of the
\* string, whatever the case of its letters.
Occurs(word, s) ==
    \E i \in 1..Len(s) :
        /\ i + Len(word) - 1 <= Len(s)
        /\ \A j \in 1..Len(word) : Fold(SubSeq(s, i, i + Len(word) - 1)[j]) = word[j]

StartsWith(word, s) ==
    /\ Len(word) <= Len(s)
    /\ \A j \in 1..Len(word) : Fold(s[j]) = word[j]

LegacyExpected(s) ==
    CASE Occurs(W_info, s) -> Info
      [] ~Occurs(W_info, s) /\ Occurs(W_note, s) -> Note
      [] ~Occurs(W_info, s) /\ ~Occurs(W_note, s) /\ Occurs(W_warn, s) -> Warn
      [] ~Occurs(W_info, s) /\ ~Occurs(W_note, s) /\ ~Occurs(W_warn, s)
            /\ Occurs(W_tip, s) -> Tip
      [] OTHER -> None

AlertExpected(s) ==
    CASE StartsWith(W_bang_note, s) \/ StartsWith(W_bang_important, s) -> Info
      [] StartsWith(W_bang_warning, s) -> Note
      [] StartsWith(W_bang_caution, s) -> Warn
      [] StartsWith(W_bang_tip, s) -> Tip
      [] OTHER -> None

\* C6: for every text and both classifiers, ClassifyingBlockQuote returns the
\* first kind in the order info, note, warn, tip whose pattern matches and None
\* when none does; Legacy finds the keyword anywhere, Alert only at the start
\* (!note, !important: Info; !warning: Note; !caution: Warn; !tip: Tip), both
\* without regard to case.
C6_ClassifierFirstMatch ==
    pc = "returned" =>
        result = (IF classifier = "legacy" THEN LegacyExpected(literal)
                  ELSE AlertExpected(literal))

\* C6 witness: the Alert classifier was given "!warningNOTE" and returned
\* Note: the marker at the start decided, in spite of the warn and note
\* keywords that Legacy would have found inside.
C6_Witness ==
    /\ pc = "returned"
    /\ result = Note
    /\ classifier = "ghalerts"
    /\ literal = K_bang \o K_warning \o K_NOTE

(***************************************************************************)
(* The document tree (goldmark's ast): node kinds, navigation, ast.Walk.   *)
(***************************************************************************)
KindDocument == "Document"
KindBlockquote == "Blockquote"
KindAdmonition == "Admonition"
KindParagraph == "Paragraph"
KindHeading == "Heading"
KindText == "Text"
KindEmphasis == "Emphasis"
KindHTMLBlock == "HTMLBlock"

NoNode == 0

MkNode(kind, parent, lines) == [kind |-> kind, parent |-> parent, lines |-> lines]

Kind(tr, n) == tr[n].kind
Parent(tr, n) == tr[n].parent

\* Text.Value(source): the characters of a Text node.
Value(tr, n) == tr[n].lines[1]

\* HTMLBlock.Lines(): the lines of a raw-HTML block.
Lines(tr, n) == tr[n].lines

Min(S) == CHOOSE x \in S : \A y \in S : x <= y

FirstChild(tr, n) ==
    LET cs == {c \in DOMAIN tr : tr[c].parent = n}
    IN  IF cs = {} THEN NoNode ELSE Min(cs)

NextSibling(tr, n) ==
    LET ss == {c \in DOMAIN tr : c > n /\ tr[c].parent = tr[n].parent}
    IN  IF ss = {} THEN NoNode ELSE Min(ss)

\* ast.Walk with a callback that always continues: the node entering, its
\* children in order, the node leaving.
RECURSIVE WalkEvents(_, _), WalkChildren(_, _)
WalkEvents(tr, n) ==
    <<[node |-> n, entering |-> TRUE]>>
        \o WalkChildren(tr, FirstChild(tr, n))
        \o <<[node |-> n, entering |-> FALSE]>>

WalkChildren(tr, c) ==
    IF c = NoNode THEN <<>>
    ELSE WalkEvents(tr, c) \o WalkChildren(tr, NextSibling(tr, c))

WalkContinue == "WalkContinue"
WalkStop == "WalkStop"

(***************************************************************************)
(* ParseBlockQuoteType: the callback of its walk, on the locals t and      *)
(* countParagraphs, and the function as the walk of that callback.         *)
(***************************************************************************)
\* The loop over the lines of a raw-HTML block: t takes each line's class
\* until one is not None.
RECURSIVE ClassifyLines(_, _, _)
ClassifyLines(lines, i, t0) ==
    IF i > Len(lines) THEN t0
    ELSE LET c == ClassifyingBlockQuote(LegacyBlockQuoteClassifier, lines[i])
         IN  IF c # None THEN c ELSE ClassifyLines(lines, i + 1, c)

\* The Text branch: the Legacy class of the text; when that is None and the
\* node reads "[", the next sibling is a Text and the one after is a Text
\* reading "]", the Alert class of the middle sibling.
ClassifyText(tr, n) ==
    LET legacy == ClassifyingBlockQuote(LegacyBlockQuoteClassifier, Value(tr, n))
        midNode == NextSibling(tr, n)
        rightNode == NextSibling(tr, midNode)
    IN  IF /\ legacy = None
           /\ midNode # NoNode
           /\ Kind(tr, midNode) = KindText
           /\ rightNode # NoNode
           /\ Kind(tr, rightNode) = KindText
           /\ Value(tr, n) = <<"[">>
           /\ Value(tr, rightNode) = <<"]">>
        THEN ClassifyingBlockQuote(GHAlertsBlockQuoteClassifier, Value(tr, midNode))
        ELSE legacy

\* Whether the callback classifies the node at this event.
Inspects(tr, s, n, entering) ==
    LET count == IF Kind(tr, n) = KindParagraph /\ entering
                 THEN s.countParagraphs + 1 ELSE s.countParagraphs
    IN  count < 2 /\ entering /\ Kind(tr, n) \in {KindText, KindHTMLBlock}

ParseVisit(tr, s, n, entering) ==
    LET count == IF Kind(tr, n) = KindParagraph /\ entering
                 THEN s.countParagraphs + 1 ELSE s.countParagraphs
    IN  IF count < 2 /\ entering
        THEN IF Kind(tr, n) = KindText
             THEN [t |-> ClassifyText(tr, n), countParagraphs |-> count + 1,
                   status |-> WalkContinue]
             ELSE IF Kind(tr, n) = KindHTMLBlock
             THEN [t |-> ClassifyLines(Lines(tr, n), 1, s.t),
                   countParagraphs |-> count + 1, status |-> WalkContinue]
             ELSE [t |-> s.t, countParagraphs |-> count, status |-> WalkContinue]
        ELSE IF count > 1 /\ entering
             THEN [t |-> s.t, countParagraphs |-> count, status |-> WalkStop]
             ELSE [t |-> s.t, countParagraphs |-> count, status |-> WalkContinue]

RECURSIVE ParseWalk(_, _, _, _)
ParseWalk(tr, events, i, s) ==
    IF i > Len(events) \/ s.status = WalkStop THEN s.t
    ELSE ParseWalk(tr, events, i + 1,
                   ParseVisit(tr, s, events[i].node, events[i].entering))

ParseBlockQuoteType(tr, n) ==
    ParseWalk(tr, WalkEvents(tr, n), 1,
              [t |-> None, countParagraphs |-> 0, status |-> WalkContinue])

(***************************************************************************)
(* Specification of ParseBlockQuoteType: it is called on an Admonition     *)
(* holding at most MaxParseNodes nodes, and its walk runs one callback     *)
(* invocation per step.                                                    *)
(***************************************************************************)
L_OpenBracket == <<"[">>
L_CloseBracket == <<"]">>
L_BangTIP == <<"!", "T", "I", "P">>
L_BangNote == <<"!", "n", "o", "t", "e">>
L_Plain == <<"x">>
L_WARN == <<"W", "A", "R", "N">>
L_Div == <<"<", "d", "i", "v", ">">>

ParseTexts == {L_OpenBracket, L_CloseBracket, L_BangTIP, L_BangNote, L_Plain}
ParseHTMLLines == {<<L_WARN>>, <<L_Div>>, <<L_Div, L_WARN>>}

RECURSIVE PathToRoot(_, _)
PathToRoot(tr, n) ==
    IF n = NoNode THEN {} ELSE {n} \cup PathToRoot(tr, Parent(tr, n))

\* The nodes that may come next in document order below parent p.
ParseChildren(tr, p) ==
    IF Kind(tr, p) = KindAdmonition
    THEN {MkNode(KindParagraph, p, <<>>), MkNode(KindHeading, p, <<>>)}
            \cup {MkNode(KindHTMLBlock, p, l) : l \in ParseHTMLLines}
    ELSE IF Kind(tr, p) \in {KindParagraph, KindHeading}
    THEN {MkNode(KindText, p, <<x>>) : x \in ParseTexts}
            \cup {MkNode(KindEmphasis, p, <<>>)}
    ELSE {}

RECURSIVE ParseTreesOf(_)
ParseTreesOf(n) ==
    IF n = 0 THEN {<<MkNode(KindAdmonition, NoNode, <<>>)>>}
    ELSE LET smaller == ParseTreesOf(n - 1)
         IN  smaller \cup UNION {
                 {Append(tr, nd) :
                     nd \in UNION {ParseChildren(tr, p) : p \in PathToRoot(tr, Len(tr))}}
                 : tr \in smaller}

ParseInit ==
    /\ tree \in ParseTreesOf(MaxParseNodes)
    /\ node = 1
    /\ walk = WalkEvents(tree, node)
    /\ pos = 1
    /\ t = None
    /\ countParagraphs = 0
    /\ status = WalkContinue
    /\ inspected = <<>>
    /\ result = None
    /\ pc = "walk"
    /\ literal = Unused /\ classifier = Unused /\ levels = Unused
    /\ doc = Unused /\ LevelMap = Unused /\ output = Unused /\ visit = Unused
    /\ writeFailures = Unused

\* One invocation of the walk's callback.
ParseStep ==
    /\ pc = "walk"
    /\ status = WalkContinue
    /\ pos <= Len(walk)
    /\ LET ev == walk[pos]
           s == [t |-> t, countParagraphs |-> countParagraphs, status |-> status]
           s2 == ParseVisit(tree, s, ev.node, ev.entering)
       IN  /\ t' = s2.t
           /\ countParagraphs' = s2.countParagraphs
           /\ status' = s2.status
           /\ inspected' = IF Inspects(tree, s, ev.node, ev.entering)
                           THEN Append(inspected, [node |-> ev.node, t |-> s2.t])
                           ELSE inspected
    /\ pos' = pos + 1
    /\ UNCHANGED <<literal, classifier, result, tree, node, walk, levels, doc,
                   LevelMap, output, visit,
                   writeFailures, pc>>

\* The walk is over (stopped, or out of nodes): return t.
ParseReturn ==
    /\ pc = "walk"
    /\ status = WalkStop \/ pos > Len(walk)
    /\ result' = t
    /\ pc' = "returned"
    /\ UNCHANGED <<literal, classifier, tree, node, walk, pos, t, countParagraphs,
                   status, inspected, levels, doc, LevelMap, output, visit,
                   writeFailures>>

ParseNext == ParseStep \/ ParseReturn

SpecParse == ParseInit /\ [][ParseNext]_vars

\* The step machine returns what the function computes.
ParseAgrees == pc = "returned" => result = ParseBlockQuoteType(tree, node)

\* The shape the bracket-alert recovery looks for at a Text node.
BracketShape(tr, n) ==
    /\ Value(tr, n) = <<"[">>
    /\ NextSibling(tr, n) # NoNode
    /\ Kind(tr, NextSibling(tr, n)) = KindText
    /\ NextSibling(tr, NextSibling(tr, n)) # NoNode
    /\ Kind(tr, NextSibling(tr, NextSibling(tr, n))) = KindText
    /\ Value(tr, NextSibling(tr, NextSibling(tr, n))) = <<"]">>

IsFirstInspectedText(i) ==
    /\ Kind(tree, inspected[i].node) = KindText
    /\ \A j \in 1..(i - 1) : Kind(tree, inspected[j].node) # KindText

\* C7: when the first inspected Text node reads "[", its next sibling is a
\* Text and the sibling after that is a Text reading "]", the type returned for
\* the blockquote is the Alert class of the middle sibling's text; a Text node
\* without that shape gets the Legacy class of its own text (Alert is not
\* consulted for it).
C7_BracketAlertRecovery ==
    pc = "returned" =>
        \A i \in DOMAIN inspected :
            LET n == inspected[i].node
            IN  /\ (IsFirstInspectedText(i) /\ BracketShape(tree, n)) =>
                        result = ClassifyingBlockQuote(GHAlertsBlockQuoteClassifier,
                                     Value(tree, NextSibling(tree, n)))
                /\ (Kind(tree, n) = KindText /\ ~BracketShape(tree, n)) =>
                        inspected[i].t = ClassifyingBlockQuote(
                                     LegacyBlockQuoteClassifier, Value(tree, n))

HasLiteral(word, s) ==
    \E i \in 1..Len(s) :
        i + Len(word) - 1 <= Len(s) /\ SubSeq(s, i, i + Len(word) - 1) = word

\* C8: an Admonition whose very first child is a raw-HTML block with the
\* literal text WARN on one of its lines, and no earlier line matching info or
\* note, resolves to Warn, whatever follows that block.
C8_FirstHTMLBlockWarn ==
    pc = "returned" =>
        LET first == FirstChild(tree, node)
        IN  (/\ first # NoNode
             /\ Kind(tree, first) = KindHTMLBlock
             /\ \E i \in DOMAIN Lines(tree, first) :
                    /\ HasLiteral(L_WARN, Lines(tree, first)[i])
                    /\ \A j \in 1..(i - 1) :
                          /\ ~Occurs(W_info, Lines(tree, first)[j])
                          /\ ~Occurs(W_note, Lines(tree, first)[j]))
            => result = Warn

\* C9: once an inspected node has given t a value other than None, no later
\* callback of the same walk changes t.
C9_FirstNonNoneIsFinal == [][t # None => t' = t]_vars

(***************************************************************************)
(* BlockQuoteLevelMap and GenerateBlockQuoteLevel.  A node's identity is   *)
(* the pair of its document and its number; a map is a function on the     *)
(* identities it holds, and Level reads Go's zero value for the others.    *)
(***************************************************************************)
EmptyMap == [k \in {} |-> 0]

Level(m, key) == IF key \in DOMAIN m THEN m[key] ELSE 0

MapSet(m, key, val) ==
    [k \in DOMAIN m \cup {key} |-> IF k = key THEN val ELSE m[k]]

RECURSIVE RootOf(_, _)
RootOf(tr, n) == IF Parent(tr, n) # NoNode THEN RootOf(tr, Parent(tr, n)) ELSE n

\* A slip: the counter is not taken back on leaving a Blockquote.
LevelVisit_NoDecrement(d, tr, s, n, entering) ==
    IF Kind(tr, n) = KindBlockquote /\ entering
    THEN [blockQuoteLevel |-> s.blockQuoteLevel + 1,
          blockQuoteLevelMap |-> MapSet(s.blockQuoteLevelMap, <<d, n>>, s.blockQuoteLevel)]
    ELSE s

\* The callback of GenerateBlockQuoteLevel's walk, on its two locals.
LevelVisit(d, tr, s, n, entering) ==
    LET s1 == IF Kind(tr, n) = KindBlockquote /\ entering
              THEN [blockQuoteLevel |-> s.blockQuoteLevel + 1,
                    blockQuoteLevelMap |->
                        MapSet(s.blockQuoteLevelMap, <<d, n>>, s.blockQuoteLevel)]
              ELSE s
    IN  IF Kind(tr, n) = KindBlockquote /\ ~entering
        THEN [s1 EXCEPT !.blockQuoteLevel = s1.blockQuoteLevel - 1]
        ELSE s1

RECURSIVE LevelWalk(_, _, _, _, _)
LevelWalk(d, tr, events, i, s) ==
    IF i > Len(events) THEN s.blockQuoteLevelMap
    ELSE LevelWalk(d, tr, events, i + 1,
                   LevelVisit(d, tr, s, events[i].node, events[i].entering))

\* someNode of document d: climb to the root, walk the whole tree.
GenerateBlockQuoteLevel(d, tr, someNode) ==
    LevelWalk(d, tr, WalkEvents(tr, RootOf(tr, someNode)), 1,
              [blockQuoteLevel |-> 0, blockQuoteLevelMap |-> EmptyMap])

(***************************************************************************)
(* Documents: below the Document root at most MaxDocBlocks blocks, each a  *)
(* Blockquote, an Admonition or a Paragraph with its Text, nested freely.  *)
(***************************************************************************)
L_WarnBeCareful == <<"w", "a", "r", "n", ":", " ", "b", "e", " ", "c", "a", "r", "e", "f", "u", "l">>
L_JustAQuote == <<"j", "u", "s", "t", " ", "a", " ", "q", "u", "o", "t", "e">>

DocTexts == {L_WarnBeCareful, L_JustAQuote}

IsContainerBlock(k) == k \in {KindDocument, KindBlockquote, KindAdmonition}

\* The blocks that may come next in document order below parent p.
DocBlocks(tr, p) ==
    IF IsContainerBlock(Kind(tr, p))
    THEN {<<MkNode(KindBlockquote, p, <<>>)>>, <<MkNode(KindAdmonition, p, <<>>)>>}
            \cup {<<MkNode(KindParagraph, p, <<>>), MkNode(KindText, Len(tr) + 1, <<x>>)>>
                    : x \in DocTexts}
    ELSE {}

RECURSIVE DocsOf(_)
DocsOf(n) ==
    IF n = 0 THEN {<<MkNode(KindDocument, NoNode, <<>>)>>}
    ELSE LET smaller == DocsOf(n - 1)
         IN  smaller \cup UNION {
                 {tr \o b :
                     b \in UNION {DocBlocks(tr, p) : p \in PathToRoot(tr, Len(tr))}}
                 : tr \in smaller}

(***************************************************************************)
(* Specification of GenerateBlockQuoteLevel: called on any node of any     *)
(* document.                                                               *)
(***************************************************************************)
LevelInit ==
    /\ tree \in DocsOf(MaxLevelBlocks)
    /\ node \in DOMAIN tree
    /\ doc = 1
    /\ levels = EmptyMap
    /\ pc = "call"
    /\ literal = Unused /\ classifier = Unused /\ result = Unused
    /\ walk = Unused /\ pos = Unused /\ t = Unused /\ countParagraphs = Unused
    /\ status = Unused /\ inspected = Unused /\ LevelMap = Unused
    /\ output = Unused /\ visit = Unused /\ writeFailures = Unused

Generate ==
    /\ pc = "call"
    /\ levels' = GenerateBlockQuoteLevel(doc, tree, node)
    /\ pc' = "returned"
    /\ UNCHANGED <<literal, classifier, result, tree, node, walk, pos, t,
                   countParagraphs, status, inspected, doc, LevelMap, output, visit,
                   writeFailures>>

LevelNext == Generate

SpecLevel == LevelInit /\ [][LevelNext]_vars

BlockquoteAncestors(tr, n) ==
    {a \in PathToRoot(tr, n) \ {n} : Kind(tr, a) = KindBlockquote}

\* C3: whatever node it is started at, GenerateBlockQuoteLevel returns a map
\* holding exactly the Blockquote nodes of the tree, each with the number of
\* its Blockquote ancestors (0 at the top level, the enclosing Blockquote's
\* level plus one when nested); other nodes leave the counter alone.
C3_LevelIsBlockquoteDepth ==
    pc = "returned" =>
        /\ DOMAIN levels = {<<doc, n>> : n \in {m \in DOMAIN tree : Kind(tree, m) = KindBlockquote}}
        /\ \A n \in DOMAIN tree :
              Kind(tree, n) = KindBlockquote =>
                  levels[<<doc, n>>] = Cardinality(BlockquoteAncestors(tree, n))

\* C3 witness: started at an inner node, the map holds a Blockquote nested in
\* one (level 1) that follows a closed top-level Blockquote (level 0) and an
\* Admonition that did not count.
C3_Witness ==
    /\ pc = "returned"
    /\ node # 1
    /\ \E a, b, c \in DOMAIN tree :
          /\ a < b /\ b < c
          /\ Kind(tree, a) = KindBlockquote /\ Kind(tree, b) = KindBlockquote
          /\ Kind(tree, c) = KindBlockquote
          /\ Parent(tree, a) = 1 /\ Parent(tree, b) = 1
          /\ Kind(tree, Parent(tree, c)) = KindAdmonition
          /\ Parent(tree, Parent(tree, c)) = b
          /\ levels[<<doc, a>>] = 0 /\ levels[<<doc, b>>] = 0 /\ levels[<<doc, c>>] = 1

(***************************************************************************)
(* The emitter: renderAdmonition (plain quote), the two macro branches of  *)
(* renderAdmon, and renderAdmon itself.  A call's writes go to the sink    *)
(* together: ok tells whether the sink took them.                          *)
(***************************************************************************)
NoAttributes == ""
SomeAttributes == " class=\"admonition\""

MacroPrefix(label) ==
    "<ac:structured-macro ac:name=\"" \o label
        \o "\"><ac:parameter ac:name=\"icon\">true</ac:parameter><ac:rich-text-body>\n"

MacroSuffix == "</ac:rich-text-body></ac:structured-macro>\n"

\* The plain quote: the results of its writes are discarded, and it continues.
renderAdmonition(entering, attrs, ok) ==
    [wrote |-> IF entering
               THEN IF attrs # NoAttributes
                    THEN "<blockquote" \o attrs \o ">"
                    ELSE "<blockquote>\n"
               ELSE "</blockquote>\n",
     ret |-> WalkContinue,
     err |-> FALSE]

\* A slip: the closing branch does not ask for the type.
renderAdmonEmit_CloseAnyType(quoteLevel, quoteType, entering, attrs, ok) ==
    IF quoteLevel = 0 /\ entering /\ quoteType # None
    THEN [wrote |-> MacroPrefix(String(quoteType)),
          ret |-> IF ok THEN WalkContinue ELSE WalkStop, err |-> ~ok]
    ELSE IF quoteLevel = 0 /\ ~entering
    THEN [wrote |-> MacroSuffix,
          ret |-> IF ok THEN WalkContinue ELSE WalkStop, err |-> ~ok]
    ELSE renderAdmonition(entering, attrs, ok)

\* renderAdmon from its first if on: the two macro branches, else the plain quote.
renderAdmonEmit(quoteLevel, quoteType, entering, attrs, ok) ==
    IF quoteLevel = 0 /\ entering /\ quoteType # None
    THEN [wrote |-> MacroPrefix(String(quoteType)),
          ret |-> IF ok THEN WalkContinue ELSE WalkStop, err |-> ~ok]
    ELSE IF quoteLevel = 0 /\ ~entering /\ quoteType # None
    THEN [wrote |-> MacroSuffix,
          ret |-> IF ok THEN WalkContinue ELSE WalkStop, err |-> ~ok]
    ELSE renderAdmonition(entering, attrs, ok)

NilLevelMap == [isNil |-> TRUE, entries |-> EmptyMap]

NoVisit ==
    [called |-> FALSE, node |-> NoNode, entering |-> FALSE, quoteLevel |-> 0,
     quoteType |-> None, wrote |-> "", ok |-> TRUE, ret |-> WalkContinue,
     err |-> FALSE]

(***************************************************************************)
(* Specification of a render: the host walks a document and calls          *)
(* renderAdmon on entering and on leaving every node of KindAdmonition,    *)
(* the kind RegisterFuncs registers it for.                                *)
(***************************************************************************)
RenderInitOf(docs) ==
    /\ tree \in docs
    /\ node = 1
    /\ walk = WalkEvents(tree, node)
    /\ doc = 1
    /\ pos = 1
    /\ status = WalkContinue
    /\ LevelMap = NilLevelMap
    /\ output = <<>>
    /\ visit = NoVisit
    /\ writeFailures = 0
    /\ pc = "render"
    /\ literal = Unused /\ classifier = Unused /\ result = Unused
    /\ t = Unused /\ countParagraphs = Unused /\ inspected = Unused
    /\ levels = Unused

Init == RenderInitOf(DocsOf(MaxDocBlocks))

renderAdmon ==
    /\ pc = "render"
    /\ status = WalkContinue
    /\ pos <= Len(walk)
    /\ LET ev == walk[pos]
           lm == IF LevelMap.isNil
                 THEN [isNil |-> FALSE,
                       entries |-> GenerateBlockQuoteLevel(doc, tree, ev.node)]
                 ELSE LevelMap
           quoteType == ParseBlockQuoteType(tree, ev.node)
           quoteLevel == Level(lm.entries, <<doc, ev.node>>)
       IN  /\ Kind(tree, ev.node) = KindAdmonition
           /\ \E ok \in BOOLEAN, attrs \in {NoAttributes, SomeAttributes} :
                 /\ ok \/ writeFailures < MaxWriteFailures
                 /\ LET r == renderAdmonEmit(quoteLevel, quoteType, ev.entering,
                                             attrs, ok)
                    IN  /\ output' = IF ok THEN Append(output, r.wrote) ELSE output
                        /\ status' = r.ret
                        /\ visit' = [called |-> TRUE, node |-> ev.node,
                                     entering |-> ev.entering,
                                     quoteLevel |-> quoteLevel,
                                     quoteType |-> quoteType, wrote |-> r.wrote,
                                     ok |-> ok, ret |-> r.ret, err |-> r.err]
                        /\ writeFailures' =
                              IF ok THEN writeFailures ELSE writeFailures + 1
           /\ LevelMap' = lm
    /\ pos' = pos + 1
    /\ UNCHANGED <<literal, classifier, result, tree, node, walk, t, countParagraphs,
                   inspected, levels, doc, pc>>

\* A node of another kind: rendered by the host's other renderers.
RenderOther ==
    /\ pc = "render"
    /\ status = WalkContinue
    /\ pos <= Len(walk)
    /\ Kind(tree, walk[pos].node) # KindAdmonition
    /\ pos' = pos + 1
    /\ UNCHANGED <<literal, classifier, result, tree, node, walk, t, countParagraphs,
                   status, inspected, levels, doc, LevelMap, output, visit,
                   writeFailures, pc>>

\* The host's walk ends: out of nodes, or stopped by a callback.
RenderEnd ==
    /\ pc = "render"
    /\ status = WalkStop \/ pos > Len(walk)
    /\ pc' = "done"
    /\ UNCHANGED <<literal, classifier, result, tree, node, walk, pos, t,
                   countParagraphs, status, inspected, levels, doc, LevelMap,
                   output, visit, writeFailures>>

Next == renderAdmon \/ RenderOther \/ RenderEnd

Spec == Init /\ [][Next]_vars

(***************************************************************************)
(* Specification of repeated renders: the same Renderer renders up to      *)
(* MaxRenders documents one after the other, each into a new sink.         *)
(* Nothing in the code touches Renderer.LevelMap between two renders.      *)
(***************************************************************************)
RerenderInit == RenderInitOf(DocsOf(MaxRerenderBlocks))

NewRender ==
    /\ pc = "done"
    /\ doc < MaxRenders
    /\ tree' \in DocsOf(MaxRerenderBlocks)
    /\ walk' = WalkEvents(tree', node)
    /\ doc' = doc + 1
    /\ pos' = 1
    /\ status' = WalkContinue
    /\ output' = <<>>
    /\ visit' = NoVisit
    /\ writeFailures' = 0
    /\ pc' = "render"
    /\ UNCHANGED <<literal, classifier, result, node, t, countParagraphs,
                   inspected, levels, LevelMap>>

RerenderNext == renderAdmon \/ RenderOther \/ RenderEnd \/ NewRender

SpecRerender == RerenderInit /\ [][RerenderNext]_vars

(***************************************************************************)
(* Specification of one visit of renderAdmon, from the point where depth   *)
(* and type are resolved: any depth up to MaxLevel, any type, either       *)
(* direction, with or without attributes, the sink taking the write or not.*)
(***************************************************************************)
VisitInit ==
    /\ visit \in {[NoVisit EXCEPT !.entering = e, !.quoteLevel = l, !.quoteType = bt] :
                     e \in BOOLEAN, l \in 0..MaxLevel, bt \in BlockQuoteType}
    /\ pc = "call"
    /\ literal = Unused /\ classifier = Unused /\ result = Unused
    /\ tree = Unused /\ node = Unused /\ walk = Unused /\ pos = Unused
    /\ t = Unused /\ countParagraphs = Unused /\ status = Unused
    /\ inspected = Unused /\ levels = Unused /\ doc = Unused
    /\ LevelMap = Unused /\ output = Unused /\ writeFailures = Unused

Visit ==
    /\ pc = "call"
    /\ \E ok \in BOOLEAN, attrs \in {NoAttributes, SomeAttributes} :
          LET r == renderAdmonEmit(visit.quoteLevel, visit.quoteType,
                                   visit.entering, attrs, ok)
          IN  visit' = [visit EXCEPT !.called = TRUE, !.wrote = r.wrote,
                                     !.ok = ok, !.ret = r.ret, !.err = r.err]
    /\ pc' = "returned"
    /\ UNCHANGED <<literal, classifier, result, tree, node, walk, pos, t,
                   countParagraphs, status, inspected, levels, doc, LevelMap,
                   output, writeFailures>>

VisitNext == Visit

SpecVisit == VisitInit /\ [][VisitNext]_vars

PlainOpenTags == {"<blockquote>\n", "<blockquote" \o SomeAttributes \o ">"}
PlainCloseTag == "</blockquote>\n"

LabelOf(bt) ==
    CASE bt = Info -> "info"
      [] bt = Note -> "note"
      [] bt = Warn -> "warning"
      [] bt = Tip -> "tip"

\* C1: at every visit the structured-macro form is written if and only if the
\* depth is 0 and the type is not None: on entering the macro open tag named
\* by the type's label (info, note, warning or tip), on leaving the
\* rich-text-body close and the macro close; in every other case the plain
\* quote: <blockquote> on entering, </blockquote> on leaving.
C1_MacroIffTopLevelTyped ==
    visit.called =>
        IF visit.quoteLevel = 0 /\ visit.quoteType # None
        THEN visit.wrote = (IF visit.entering
                            THEN MacroPrefix(LabelOf(visit.quoteType))
                            ELSE MacroSuffix)
        ELSE IF visit.entering
             THEN visit.wrote \in PlainOpenTags
             ELSE visit.wrote = PlainCloseTag

\* C1 witness: a Warn at depth 0 was entered and the macro named "warning"
\* was written.
C1_Witness ==
    /\ visit.called
    /\ visit.entering
    /\ visit.quoteLevel = 0
    /\ visit.quoteType = Warn
    /\ visit.ok
    /\ visit.wrote = MacroPrefix("warning")

(***************************************************************************)
(* Claims about a render.                                                  *)
(***************************************************************************)
NestedInAdmonition(tr, n) ==
    \E a \in PathToRoot(tr, n) \ {n} : Kind(tr, a) = KindAdmonition

\* C2: a node renderAdmon is invoked on that lies inside another such node
\* is rendered as a plain <blockquote> ... </blockquote>, also when its content
\* classifies: its depth in the LevelMap is greater than 0.
C2_NestedRendersPlain ==
    (visit.called /\ NestedInAdmonition(tree, visit.node) /\ visit.quoteType # None)
        => /\ visit.quoteLevel > 0
           /\ visit.wrote \in PlainOpenTags \cup {PlainCloseTag}

\* C4: a write the sink rejects, in the macro branch or in the plain-quote
\* branch, makes renderAdmon return WalkStop with the error, so that the
\* host's walk stops.
C4_WriteFailureStops ==
    (visit.called /\ ~visit.ok)
        => (visit.ret = WalkStop /\ visit.err /\ status = WalkStop)

\* C5: the LevelMap is reset at the start of each render: at every visit the
\* map the depth is read from is the one GenerateBlockQuoteLevel builds for the
\* tree of the document being rendered, so that it holds the nesting depth of
\* each Blockquote of that document.
C5_LevelMapOfCurrentDocument ==
    visit.called =>
        /\ ~LevelMap.isNil
        /\ LevelMap.entries = GenerateBlockQuoteLevel(doc, tree, visit.node)

IsOpenTag(w) ==
    \/ w \in PlainOpenTags
    \/ \E bt \in BlockQuoteType \ {None} : w = MacroPrefix(LabelOf(bt))

Closes(open, close) ==
    IF open \in PlainOpenTags THEN close = PlainCloseTag ELSE close = MacroSuffix

\* The open tags not yet closed after out[i..], from the stack of those open
\* before; <<"unbalanced">> when a close tag does not close the innermost one.
RECURSIVE OpenAfter(_, _, _)
OpenAfter(out, i, stack) ==
    IF i > Len(out) THEN stack
    ELSE IF IsOpenTag(out[i]) THEN OpenAfter(out, i + 1, Append(stack, out[i]))
    ELSE IF stack # <<>> /\ Closes(stack[Len(stack)], out[i])
         THEN OpenAfter(out, i + 1, SubSeq(stack, 1, Len(stack) - 1))
         ELSE <<"unbalanced">>

AdmonitionEventsBefore(i) ==
    Cardinality({j \in 1..(i - 1) : Kind(tree, walk[j].node) = KindAdmonition})

\* C10: on a static tree the form written on leaving a node is the form
\* written on entering it, so the tags written over the walk, one per visit in
\* document order, are properly nested (each close tag closes the innermost
\* open tag, in its form) and, when the walk has ended, all closed.
C10_TagsBalanced ==
    (pc \in {"render", "done"} /\ writeFailures = 0) =>
        /\ Len(output) = AdmonitionEventsBefore(pos)
        /\ OpenAfter(output, 1, <<>>) # <<"unbalanced">>
        /\ pc = "done" => OpenAfter(output, 1, <<>>) = <<>>

\* C10 witness: a render ended with a plain quote written inside a macro.
C10_Witness ==
    /\ pc = "done"
    /\ writeFailures = 0
    /\ output = <<MacroPrefix("warning"), "<blockquote>\n", PlainCloseTag, MacroSuffix>>
====
